---- MODULE Spec2Model ----
(***************************************************************************)
(* Model of atropos/filters.py: the read predicates (filters), the         *)
(* SingleWrapper / PairedWrapper adaptation layer, the FilterFactory and   *)
(* the ordered Filters chain.                                              *)
(*                                                                         *)
(* A read is a record [sequence, match, merged]; len(read) is the length   *)
(* of its sequence.  An absent second read is None.  Numbers that may be   *)
(* fractional (the NContentFilter cutoff) are exact rationals [num, den]   *)
(* with den >= 1; every comparison the code makes on them is made by       *)
(* cross-multiplication.  A Python exception is a result with              *)
(* raised = TRUE.                                                          *)
(***************************************************************************)
EXTENDS Integers, Sequences, FiniteSets

VARIABLES
    filter_factory, \* Filters.filter_factory: [paired, min_affected]
    filters,        \* Filters.filters: the OrderedDict, a sequence of [key, value]
    last,           \* the last operation on the chain: inputs, result, chain before it
    order,          \* history: the keys in the order of their first registration
    regArgs,        \* history: key -> arguments of its latest successful registration
    returned,       \* history: key -> filter() calls that returned it since it was registered
    discarded,      \* history: filter() calls that returned a registered key
    lateReg,        \* history: an add_filter succeeded after some filter() call
    nregs,          \* number of add_filter calls made
    ncalls,         \* number of filter() calls made
    predicate,      \* SpecPredicate: the predicate object under test
    plast,          \* SpecPredicate: its construction and last call
    evaluator,      \* SpecWrapper: the wrapper the factory built last
    elast,          \* SpecWrapper: its last call
    workers         \* SpecShared: the threads inside Filters.filter

vars == << filter_factory, filters, last, order, regArgs, returned, discarded,
           lateReg, nregs, ncalls, predicate, plast, evaluator, elast, workers >>

-----------------------------------------------------------------------------
(* Bounds *)

MaxRegs == 3
MaxCalls == 2
MaxLen == 3
MaxThreads == 2

-----------------------------------------------------------------------------
(* Values *)

DISCARD == TRUE
KEEP == FALSE

None == [none |-> TRUE]

Bases == {"A", "N", "n"}

RECURSIVE SeqsUpTo(_, _)
SeqsUpTo(S, n) ==
    IF n = 0 THEN {<<>>}
    ELSE LET shorter == SeqsUpTo(S, n - 1)
         IN  shorter \cup {Append(s, b) : s \in {t \in shorter : Len(t) = n - 1}, b \in S}

Read(s, m, g) == [sequence |-> s, match |-> m, merged |-> g]

\* The reads the chain is queried with: different lengths, with and without
\* Ns, trimmed and untrimmed, merged and not.
ChainReads ==
    { Read(<<"N">>, TRUE, FALSE),
      Read(<<"A", "A">>, FALSE, TRUE),
      Read(<<"A", "n", "N", "A">>, TRUE, FALSE) }

\* The reads a single wrapper is called with
WrapperReads ==
    ChainReads \cup { Read(<<>>, FALSE, FALSE), Read(<<"n", "N", "A">>, FALSE, FALSE) }

\* read2 may be absent
OrNone(S) == S \cup {None}

\* len(read)
ReadLen(read) == Len(read.sequence)

\* str.lower() on one symbol
Lower(c) == CASE c = "A" -> "a" [] c = "N" -> "n" [] OTHER -> c

\* read.sequence.lower().count('n')
RECURSIVE CountN(_)
CountN(s) ==
    IF s = <<>> THEN 0
    ELSE (IF Lower(Head(s)) = "n" THEN 1 ELSE 0) + CountN(Tail(s))

-----------------------------------------------------------------------------
(* Predicates (filters.py 78-137) *)

FilterTypes ==
    { "MergedReadFilter", "TooShortReadFilter", "TooLongReadFilter",
      "NContentFilter", "UntrimmedFilter", "TrimmedFilter" }

NoFilter == "NoFilter"

Ok(v) == [raised |-> FALSE, value |-> v]
Raise == [raised |-> TRUE, value |-> FALSE]

\* a slip: a count of exactly 1 is taken as a proportion
NContentFilterInitInclusive(args) ==
    IF args[1] < 0
    THEN Raise
    ELSE Ok([type |-> "NContentFilter",
             is_proportion |-> args[1] <= args[2],
             cutoff |-> [num |-> args[1], den |-> args[2]]])

\* NContentFilter.__init__(count), count = args[1] / args[2]
NContentFilterInit(args) ==
    IF args[1] < 0
    THEN Raise
    ELSE Ok([type |-> "NContentFilter",
             is_proportion |-> args[1] < args[2],
             cutoff |-> [num |-> args[1], den |-> args[2]]])

\* filter_type(*args): the constructors
Construct(filter_type, args) ==
    CASE filter_type = "TooShortReadFilter" ->
            Ok([type |-> filter_type, minimum_length |-> args[1]])
      [] filter_type = "TooLongReadFilter" ->
            Ok([type |-> filter_type, maximum_length |-> args[1]])
      [] filter_type = "NContentFilter" -> NContentFilterInit(args)
      [] OTHER -> Ok([type |-> filter_type])

\* NContentFilter.__call__(read)
NContentFilterCall(f, read) ==
    LET n_count == CountN(read.sequence)
    IN  IF f.is_proportion
        THEN IF ReadLen(read) = 0
             THEN FALSE
             ELSE n_count * f.cutoff.den > f.cutoff.num * ReadLen(read)
        ELSE n_count * f.cutoff.den > f.cutoff.num

\* f(read) for a predicate object f; calling it on None raises
Pred(f, read) ==
    IF read = None THEN Raise
    ELSE Ok(CASE f.type = "MergedReadFilter" -> read.merged
              [] f.type = "TooShortReadFilter" -> ReadLen(read) < f.minimum_length
              [] f.type = "TooLongReadFilter" -> ReadLen(read) > f.maximum_length
              [] f.type = "NContentFilter" -> NContentFilterCall(f, read)
              [] f.type = "UntrimmedFilter" -> ~read.match
              [] f.type = "TrimmedFilter" -> read.match
              [] OTHER -> FALSE)

-----------------------------------------------------------------------------
(* Wrappers (filters.py 21-64) *)

SingleWrapperInit(f) ==
    Ok([class |-> "SingleWrapper", filtered |-> 0, filter |-> f])

\* a slip: min_affected is stored without being validated
PairedWrapperInitUnchecked(f, min_affected) ==
    Ok([class |-> "PairedWrapper", filtered |-> 0, filter |-> f,
        min_affected |-> min_affected])

PairedWrapperInit(f, min_affected) ==
    IF ~(min_affected \in {1, 2})
    THEN Raise
    ELSE Ok([class |-> "PairedWrapper", filtered |-> 0, filter |-> f,
             min_affected |-> min_affected])

\* the result of calling a wrapper: the wrapper afterwards and its verdict
Called(w, verdict, raised) == [wrapper |-> w, verdict |-> verdict, raised |-> raised]

\* a slip: the counter goes up on every call, kept or discarded
SingleWrapperCallCountAll(w, read1, read2) ==
    LET p == Pred(w.filter, read1)
    IN  IF p.raised THEN Called(w, KEEP, TRUE)
        ELSE Called([w EXCEPT !.filtered = @ + 1], p.value, FALSE)

\* a slip: the second read is inspected as well
SingleWrapperCallBoth(w, read1, read2) ==
    LET p1 == Pred(w.filter, read1)
        p2 == IF read2 = None THEN Ok(FALSE) ELSE Pred(w.filter, read2)
    IN  IF p1.raised \/ p2.raised THEN Called(w, KEEP, TRUE)
        ELSE IF p1.value \/ p2.value
             THEN Called([w EXCEPT !.filtered = @ + 1], DISCARD, FALSE)
             ELSE Called(w, KEEP, FALSE)

SingleWrapperCall(w, read1, read2) ==
    LET p == Pred(w.filter, read1)
    IN  IF p.raised THEN Called(w, KEEP, TRUE)
        ELSE IF p.value
             THEN Called([w EXCEPT !.filtered = @ + 1], DISCARD, FALSE)
             ELSE Called(w, KEEP, FALSE)

\* a slip: read 2 is inspected only when read 1 did not match, whatever
\* min_affected is
PairedWrapperCallSkip2(w, read1, read2) ==
    LET p1 == Pred(w.filter, read1)
        failures1 == IF p1.value THEN 1 ELSE 0
        inspect2 == (failures1 = 0)
        p2 == IF ~inspect2 THEN Ok(FALSE)
              ELSE IF read2 = None THEN Ok(TRUE)
              ELSE Pred(w.filter, read2)
        failures == IF p2.value THEN failures1 + 1 ELSE failures1
    IN  IF p1.raised \/ p2.raised THEN Called(w, KEEP, TRUE)
        ELSE IF failures >= w.min_affected
             THEN Called([w EXCEPT !.filtered = @ + 1], DISCARD, FALSE)
             ELSE Called(w, KEEP, FALSE)

PairedWrapperCall(w, read1, read2) ==
    LET p1 == Pred(w.filter, read1)
        failures1 == IF p1.value THEN 1 ELSE 0
        inspect2 == (w.min_affected - failures1 = 1)
        p2 == IF ~inspect2 THEN Ok(FALSE)
              ELSE IF read2 = None THEN Ok(TRUE)
              ELSE Pred(w.filter, read2)
        failures == IF p2.value THEN failures1 + 1 ELSE failures1
    IN  IF p1.raised \/ p2.raised THEN Called(w, KEEP, TRUE)
        ELSE IF failures >= w.min_affected
             THEN Called([w EXCEPT !.filtered = @ + 1], DISCARD, FALSE)
             ELSE Called(w, KEEP, FALSE)

\* f(read1, read2) for a wrapper f
WrapperCall(w, read1, read2) ==
    IF w.class = "PairedWrapper"
    THEN PairedWrapperCall(w, read1, read2)
    ELSE SingleWrapperCall(w, read1, read2)

\* FilterFactory.__call__(filter_type, *args)
FilterFactoryCall(factory, filter_type, args) ==
    LET f == Construct(filter_type, args)
    IN  IF f.raised THEN Raise
        ELSE IF factory.paired = "both"
             THEN PairedWrapperInit(f.value, factory.min_affected)
             ELSE SingleWrapperInit(f.value)

-----------------------------------------------------------------------------
(* The chain (filters.py 139-160) *)

\* position of key in the OrderedDict, 0 when absent
IndexOf(d, key) ==
    IF \E i \in 1..Len(d) : d[i].key = key
    THEN CHOOSE i \in 1..Len(d) : d[i].key = key
    ELSE 0

\* a slip: a key that is set again moves to the end (delete, then insert)
OrderedDictSetMoveToEnd(d, key, value) ==
    Append(SelectSeq(d, LAMBDA e : e.key # key), [key |-> key, value |-> value])

\* OrderedDict.__setitem__: an existing key keeps its position
OrderedDictSet(d, key, value) ==
    IF IndexOf(d, key) > 0
    THEN [d EXCEPT ![IndexOf(d, key)].value = value]
    ELSE Append(d, [key |-> key, value |-> value])

Keys(d) == [i \in 1..Len(d) |-> d[i].key]

\* Filters.__contains__
Contains(d, filter_type) == IndexOf(d, filter_type) > 0

\* Filters.__getitem__ (of a key that is present)
GetItem(d, filter_type) == d[IndexOf(d, filter_type)].value

\* Filters.add_filter: the right-hand side is evaluated first, so a raise
\* leaves self.filters as it was
FiltersAddFilter(d, factory, filter_type, args) ==
    LET w == FilterFactoryCall(factory, filter_type, args)
    IN  IF w.raised
        THEN [filters |-> d, raised |-> TRUE]
        ELSE [filters |-> OrderedDictSet(d, filter_type, w.value), raised |-> FALSE]

\* a slip: no break, so every wrapper is called and the last discard wins
RECURSIVE FilterLoopNoBreakFrom(_, _, _, _, _, _)
FilterLoopNoBreakFrom(d, i, read1, read2, consulted, dest) ==
    IF i > Len(d)
    THEN [dest |-> dest, filters |-> d, consulted |-> consulted, raised |-> FALSE]
    ELSE LET r == WrapperCall(d[i].value, read1, read2)
         IN  FilterLoopNoBreakFrom([d EXCEPT ![i].value = r.wrapper], i + 1, read1, read2,
                                   Append(consulted, d[i].key),
                                   IF r.verdict THEN d[i].key ELSE dest)

FilterLoopNoBreak(d, i, read1, read2, consulted) ==
    FilterLoopNoBreakFrom(d, i, read1, read2, consulted, NoFilter)

\* a slip: the return sits inside the loop, so only the first wrapper is called
FilterLoopFirstOnly(d, i, read1, read2, consulted) ==
    IF i > Len(d)
    THEN [dest |-> NoFilter, filters |-> d, consulted |-> consulted, raised |-> FALSE]
    ELSE LET r == WrapperCall(d[i].value, read1, read2)
         IN  [dest |-> IF r.verdict THEN d[i].key ELSE NoFilter,
              filters |-> [d EXCEPT ![i].value = r.wrapper],
              consulted |-> Append(consulted, d[i].key), raised |-> FALSE]

\* Filters.filter: the loop from item i on; consulted lists the keys whose
\* wrapper has been called so far
RECURSIVE FilterLoop(_, _, _, _, _)
FilterLoop(d, i, read1, read2, consulted) ==
    IF i > Len(d)
    THEN [dest |-> NoFilter, filters |-> d, consulted |-> consulted, raised |-> FALSE]
    ELSE LET r == WrapperCall(d[i].value, read1, read2)
             d2 == [d EXCEPT ![i].value = r.wrapper]
             seen == Append(consulted, d[i].key)
         IN  IF r.raised
             THEN [dest |-> NoFilter, filters |-> d2, consulted |-> seen, raised |-> TRUE]
             ELSE IF r.verdict
                  THEN [dest |-> d[i].key, filters |-> d2, consulted |-> seen,
                        raised |-> FALSE]
                  ELSE FilterLoop(d2, i + 1, read1, read2, seen)

FiltersFilter(d, read1, read2) == FilterLoop(d, 1, read1, read2, <<>>)

-----------------------------------------------------------------------------
(* Inputs of the chain *)

Factory(p, m) == [paired |-> p, min_affected |-> m]

\* FilterFactory(paired, min_affected): nothing is validated here
FactoryConfigs ==
    { Factory("both", 0), Factory("both", 1), Factory("both", 2), Factory("both", 3),
      Factory("first", 1), Factory("first", 3) }

Choice(t, a) == [filter_type |-> t, args |-> a]

\* add_filter(filter_type, *args) calls
FilterChoices ==
    { Choice("TooShortReadFilter", <<1>>),
      Choice("TooShortReadFilter", <<3>>),
      Choice("NContentFilter", <<1, 2>>),
      Choice("UntrimmedFilter", <<>>) }

NoOp ==
    [op |-> "init", filter_type |-> NoFilter, args |-> <<>>, read1 |-> None,
     read2 |-> None, dest |-> NoFilter, consulted |-> <<>>, raised |-> FALSE,
     before |-> <<>>]

-----------------------------------------------------------------------------
(* Specification of one chain used by one caller *)

NoPredicate ==
    /\ predicate = None
    /\ plast = None

NoEvaluator ==
    /\ evaluator = None
    /\ elast = None

NoWorkers == workers = <<>>

Init ==
    /\ filter_factory \in FactoryConfigs
    /\ filters = <<>>
    /\ last = NoOp
    /\ order = <<>>
    /\ regArgs = [t \in FilterTypes |-> <<>>]
    /\ returned = [t \in FilterTypes |-> 0]
    /\ discarded = 0
    /\ lateReg = FALSE
    /\ nregs = 0
    /\ ncalls = 0
    /\ NoPredicate
    /\ NoEvaluator
    /\ NoWorkers

\* Filters.add_filter(filter_type, *args)
AddFilter ==
    /\ nregs < MaxRegs
    /\ \E c \in FilterChoices :
        LET r == FiltersAddFilter(filters, filter_factory, c.filter_type, c.args)
        IN  /\ filters' = r.filters
            /\ last' = [NoOp EXCEPT !.op = "add_filter", !.filter_type = c.filter_type,
                                    !.args = c.args, !.raised = r.raised,
                                    !.before = IF r.raised THEN filters ELSE <<>>]
            /\ IF r.raised
               THEN UNCHANGED << order, regArgs, returned, lateReg >>
               ELSE /\ order' = IF \E i \in 1..Len(order) : order[i] = c.filter_type
                                THEN order
                                ELSE Append(order, c.filter_type)
                    /\ regArgs' = [regArgs EXCEPT ![c.filter_type] = c.args]
                    /\ returned' = [returned EXCEPT ![c.filter_type] = 0]
                    /\ lateReg' = (lateReg \/ ncalls > 0)
    /\ nregs' = nregs + 1
    /\ UNCHANGED << filter_factory, discarded, ncalls, predicate, plast, evaluator,
                    elast, workers >>

\* Filters.filter(read1, read2=None)
Filter ==
    /\ ncalls < MaxCalls
    /\ \E read1 \in ChainReads, read2 \in OrNone(ChainReads) :
        LET r == FiltersFilter(filters, read1, read2)
            hit == ~r.raised /\ r.dest # NoFilter
        IN  /\ filters' = r.filters
            /\ last' = [NoOp EXCEPT !.op = "filter", !.read1 = read1, !.read2 = read2,
                                    !.dest = r.dest, !.consulted = r.consulted,
                                    !.raised = r.raised, !.before = filters]
            /\ returned' = IF hit THEN [returned EXCEPT ![r.dest] = @ + 1] ELSE returned
            /\ discarded' = IF hit THEN discarded + 1 ELSE discarded
    /\ ncalls' = ncalls + 1
    /\ UNCHANGED << filter_factory, order, regArgs, lateReg, nregs, predicate, plast,
                    evaluator, elast, workers >>

Next == AddFilter \/ Filter

Spec == Init /\ [][Next]_vars

-----------------------------------------------------------------------------
(* Specification of one predicate object, called on single reads *)

ChainUnused ==
    /\ filters = <<>>
    /\ last = NoOp
    /\ order = <<>>
    /\ regArgs = [t \in FilterTypes |-> <<>>]
    /\ returned = [t \in FilterTypes |-> 0]
    /\ discarded = 0
    /\ lateReg = FALSE
    /\ nregs = 0
    /\ ncalls = 0

\* NContentFilter(count) with count = num/den: proportions, the boundary 1,
\* counts above 1 (whole and fractional) and a negative count
Cutoffs == { <<0, 1>>, <<1, 4>>, <<1, 2>>, <<1, 1>>, <<3, 2>>, <<2, 1>>, <<-1, 1>> }

PredicateChoices ==
    { Choice("NContentFilter", c) : c \in Cutoffs }
    \cup { Choice("TooShortReadFilter", <<2>>), Choice("TooLongReadFilter", <<2>>),
           Choice("MergedReadFilter", <<>>), Choice("UntrimmedFilter", <<>>),
           Choice("TrimmedFilter", <<>>), Choice(NoFilter, <<>>) }

PredicateReads ==
    { Read(s, m, ~m) : s \in SeqsUpTo(Bases, MaxLen), m \in BOOLEAN }

NoCall ==
    [op |-> "init", args |-> <<>>, read |-> None, verdict |-> KEEP, raised |-> FALSE]

InitPredicate ==
    /\ filter_factory = Factory("first", 1)
    /\ ChainUnused
    /\ predicate = None
    /\ plast = NoCall
    /\ NoEvaluator
    /\ NoWorkers

\* f = filter_type(*args)
NewPredicate ==
    /\ \E c \in PredicateChoices :
        LET r == Construct(c.filter_type, c.args)
        IN  /\ predicate' = IF r.raised THEN predicate ELSE r.value
            /\ plast' = [NoCall EXCEPT !.op = "new", !.raised = r.raised,
                                       !.args = IF r.raised THEN plast.args ELSE c.args]
    /\ UNCHANGED << filter_factory, filters, last, order, regArgs, returned, discarded,
                    lateReg, nregs, ncalls, evaluator, elast, workers >>

\* f(read)
CallPredicate ==
    /\ predicate # None
    /\ \E read \in PredicateReads :
        LET r == Pred(predicate, read)
        IN  plast' = [plast EXCEPT !.op = "call", !.read = read, !.verdict = r.value,
                                   !.raised = r.raised]
    /\ UNCHANGED << filter_factory, filters, last, order, regArgs, returned, discarded,
                    lateReg, nregs, ncalls, predicate, evaluator, elast, workers >>

NextPredicate == NewPredicate \/ CallPredicate

SpecPredicate == InitPredicate /\ [][NextPredicate]_vars

-----------------------------------------------------------------------------
(* Specification of one wrapper built by the factory, called on records *)

WrapperChoices ==
    FilterChoices
    \cup { Choice("MergedReadFilter", <<>>), Choice("TrimmedFilter", <<>>),
           Choice("TooLongReadFilter", <<1>>), Choice("NContentFilter", <<1, 1>>) }

NoEval ==
    [op |-> "init", read1 |-> None, read2 |-> None, verdict |-> KEEP,
     raised |-> FALSE, before |-> None]

InitWrapper ==
    /\ filter_factory \in FactoryConfigs
    /\ ChainUnused
    /\ NoPredicate
    /\ evaluator = None
    /\ elast = NoEval
    /\ NoWorkers

\* filter_factory(filter_type, *args)
Build ==
    /\ \E c \in WrapperChoices :
        LET r == FilterFactoryCall(filter_factory, c.filter_type, c.args)
        IN  /\ evaluator' = IF r.raised THEN evaluator ELSE r.value
            /\ elast' = [NoEval EXCEPT !.op = "build", !.raised = r.raised]
    /\ UNCHANGED << filter_factory, filters, last, order, regArgs, returned, discarded,
                    lateReg, nregs, ncalls, predicate, plast, workers >>

\* f(read1, read2) on the wrapper
Evaluate ==
    /\ evaluator # None
    /\ evaluator.filtered < MaxCalls
    /\ \E read1 \in WrapperReads, read2 \in OrNone(WrapperReads) :
        LET r == WrapperCall(evaluator, read1, read2)
        IN  /\ evaluator' = r.wrapper
            /\ elast' = [op |-> "call", read1 |-> read1, read2 |-> read2,
                         verdict |-> r.verdict, raised |-> r.raised,
                         before |-> evaluator]
    /\ UNCHANGED << filter_factory, filters, last, order, regArgs, returned, discarded,
                    lateReg, nregs, ncalls, predicate, plast, workers >>

NextWrapper == Build \/ Evaluate

SpecWrapper == InitWrapper /\ [][NextWrapper]_vars

-----------------------------------------------------------------------------
(* Specification of one chain shared by threads that each call filter().    *)
(* A thread may be preempted between any two steps: entering the loop, one  *)
(* wrapper call up to the load of self.filtered, and the store of           *)
(* self.filtered + 1, which are separate steps of "self.filtered += 1".     *)

Threads == 1..MaxThreads

Thread(pc, read1, read2, i, loaded, dest) ==
    [pc |-> pc, read1 |-> read1, read2 |-> read2, i |-> i, loaded |-> loaded,
     dest |-> dest]

\* the chain after add_filter(TooShortReadFilter, 3); add_filter(UntrimmedFilter)
SharedChain(factory) ==
    FiltersAddFilter(
        FiltersAddFilter(<<>>, factory, "TooShortReadFilter", <<3>>).filters,
        factory, "UntrimmedFilter", <<>>).filters

InitShared ==
    /\ filter_factory \in {Factory("both", 1), Factory("both", 2), Factory("first", 1)}
    /\ filters = SharedChain(filter_factory)
    /\ last = NoOp
    /\ order = Keys(filters)
    /\ regArgs = [t \in FilterTypes |-> IF t = "TooShortReadFilter" THEN <<3>> ELSE <<>>]
    /\ returned = [t \in FilterTypes |-> 0]
    /\ discarded = 0
    /\ lateReg = FALSE
    /\ nregs = 2
    /\ ncalls = 0
    /\ NoPredicate
    /\ NoEvaluator
    /\ workers = [t \in Threads |-> Thread("idle", None, None, 0, 0, NoFilter)]

\* self.filtered + 1, computed from the value the thread loaded
Incremented(loaded) == loaded + 1

\* a thread calls filter(read1, read2): dest = NoFilter, the loop starts
Enter(t) ==
    /\ workers[t].pc = "idle"
    /\ \E read1 \in ChainReads, read2 \in OrNone(ChainReads) :
        workers' = [workers EXCEPT ![t] = Thread("loop", read1, read2, 1, 0, NoFilter)]
    /\ ncalls' = ncalls + 1
    /\ UNCHANGED << filter_factory, filters, last, order, regArgs, returned, discarded,
                    lateReg, nregs, predicate, plast, evaluator, elast >>

\* the loop ends without a discard: return NoFilter
ReturnNoFilter(t) ==
    /\ workers[t].pc = "loop"
    /\ workers[t].i > Len(filters)
    /\ workers' = [workers EXCEPT ![t].pc = "done"]
    /\ UNCHANGED << filter_factory, filters, last, order, regArgs, returned, discarded,
                    lateReg, nregs, ncalls, predicate, plast, evaluator, elast >>

\* the thread calls wrapper i; on a keep the loop goes on, on a discard the
\* wrapper has loaded self.filtered
CallWrapper(t) ==
    /\ workers[t].pc = "loop"
    /\ workers[t].i <= Len(filters)
    /\ LET w == filters[workers[t].i].value
           r == WrapperCall(w, workers[t].read1, workers[t].read2)
       IN  workers' = IF r.verdict = DISCARD
                      THEN [workers EXCEPT ![t].pc = "store", ![t].loaded = w.filtered]
                      ELSE [workers EXCEPT ![t].i = @ + 1]
    /\ UNCHANGED << filter_factory, filters, last, order, regArgs, returned, discarded,
                    lateReg, nregs, ncalls, predicate, plast, evaluator, elast >>

\* the wrapper stores self.filtered and returns DISCARD; filter() breaks out
\* of the loop and returns the key
StoreAndReturn(t) ==
    /\ workers[t].pc = "store"
    /\ LET i == workers[t].i
       IN  /\ filters' = [filters EXCEPT ![i].value.filtered =
                                             Incremented(workers[t].loaded)]
           /\ workers' = [workers EXCEPT ![t].pc = "done", ![t].dest = filters[i].key]
           /\ returned' = [returned EXCEPT ![filters[i].key] = @ + 1]
    /\ discarded' = discarded + 1
    /\ UNCHANGED << filter_factory, last, order, regArgs, lateReg, nregs, ncalls,
                    predicate, plast, evaluator, elast >>

NextShared ==
    \E t \in Threads :
        \/ Enter(t)
        \/ ReturnNoFilter(t)
        \/ CallWrapper(t)
        \/ StoreAndReturn(t)

SpecShared == InitShared /\ [][NextShared]_vars

-----------------------------------------------------------------------------
(* Properties of the chain, checked under Spec *)

\* the positions of chain d whose wrapper discards the record
Discarders(d, read1, read2) ==
    {i \in 1..Len(d) : WrapperCall(d[i].value, read1, read2).verdict}

Min(S) == CHOOSE x \in S : \A y \in S : x <= y

RECURSIVE SumFiltered(_, _)
SumFiltered(d, i) ==
    IF i > Len(d) THEN 0 ELSE d[i].value.filtered + SumFiltered(d, i + 1)

FilterDone == last.op = "filter" /\ ~last.raised

\* C1: when two or more registered wrappers would discard the record, filter()
\* returns the key registered earliest, that wrapper's counter goes up by
\* exactly 1, the wrappers before it (which kept) and after it (never called)
\* are unchanged.
C1_FirstMatchWins ==
    FilterDone =>
        LET b == last.before
            D == Discarders(b, last.read1, last.read2)
        IN  Cardinality(D) >= 2 =>
                /\ last.dest = b[Min(D)].key
                /\ Len(filters) = Len(b)
                /\ last.consulted = SubSeq(Keys(b), 1, Min(D))
                /\ \A i \in 1..Len(b) :
                    /\ filters[i].key = b[i].key
                    /\ filters[i].value =
                           IF i = Min(D)
                           THEN [b[i].value EXCEPT !.filtered = @ + 1]
                           ELSE b[i].value

C1_Witness ==
    /\ FilterDone
    /\ Cardinality(Discarders(last.before, last.read1, last.read2)) >= 2
    /\ Min(Discarders(last.before, last.read1, last.read2)) > 1
    /\ Len(last.before) = 3

\* C2: every wrapper's counter equals the number of filter() calls that
\* returned its key since it was registered; a call raises the counter of a
\* consulted wrapper by exactly 1 on a discard verdict and leaves it alone on
\* a keep verdict; while no registration follows a call, the counters sum to
\* the number of calls that returned a key other than NoFilter.
C2_CounterInvariant ==
    /\ \A i \in 1..Len(filters) : filters[i].value.filtered = returned[filters[i].key]
    /\ ~lateReg => SumFiltered(filters, 1) = discarded
    /\ FilterDone =>
        /\ Len(filters) = Len(last.before)
        /\ \A i \in 1..Len(last.before) :
            LET w == last.before[i].value
                called == i <= Len(last.consulted)
                verdict == WrapperCall(w, last.read1, last.read2).verdict
            IN  filters[i].value.filtered =
                    IF called /\ verdict = DISCARD THEN w.filtered + 1 ELSE w.filtered

C2_Witness ==
    /\ FilterDone
    /\ ~lateReg
    /\ ncalls = 2
    /\ discarded = 1
    /\ \E i \in 1..Len(filters) :
        /\ filters[i].value.filtered = 1
        /\ last.dest # filters[i].key

\* C5: when no registered wrapper discards the record, filter() returns
\* NoFilter, calls every wrapper once in insertion order and changes no
\* counter; and it returns NoFilter only then.
C5_NoMatchIsNoFilter ==
    FilterDone =>
        LET b == last.before
            D == Discarders(b, last.read1, last.read2)
        IN  /\ D = {} =>
                /\ last.dest = NoFilter
                /\ last.consulted = Keys(b)
                /\ filters = b
            /\ last.dest = NoFilter => D = {}

C5_Witness ==
    /\ FilterDone
    /\ Len(last.before) >= 2
    /\ last.dest = NoFilter
    /\ last.consulted = Keys(last.before)

\* C8: with paired = "both", a min_affected outside {1, 2} makes add_filter
\* raise and leave the chain as it was; no PairedWrapper in the chain has
\* another min_affected, and filter() never raises.
C8_MinAffectedRejectedAtSetup ==
    /\ \A i \in 1..Len(filters) :
        filters[i].value.class = "PairedWrapper" =>
            filters[i].value.min_affected \in {1, 2}
    /\ (last.op = "add_filter" /\ last.raised) => filters = last.before
    /\ (filter_factory.paired = "both" /\ filter_factory.min_affected \notin {1, 2}) =>
        /\ filters = <<>>
        /\ last.op = "add_filter" => last.raised
    /\ last.op = "filter" => ~last.raised

C8_Witness ==
    /\ last.op = "add_filter"
    /\ last.raised
    /\ filter_factory.min_affected = 3
    /\ ncalls > 0

\* C9: the chain iterates its keys in the order of their first registration;
\* registering a key again replaces its wrapper (fresh counter, the new
\* arguments, returned by lookup) without moving it or adding an entry, and
\* the key filter() returns is one whose latest arguments discard the record.
C9_RegistryOrder ==
    /\ Keys(filters) = order
    /\ \A i, j \in 1..Len(filters) : filters[i].key = filters[j].key => i = j
    /\ \A i \in 1..Len(filters) :
        LET key == filters[i].key
            fresh == FilterFactoryCall(filter_factory, key, regArgs[key])
        IN  /\ Contains(filters, key)
            /\ GetItem(filters, key) = filters[i].value
            /\ ~fresh.raised
            /\ filters[i].value.filter = fresh.value.filter
            /\ (last.op = "add_filter" /\ ~last.raised /\ last.filter_type = key) =>
                   filters[i].value = fresh.value
    /\ (FilterDone /\ last.dest # NoFilter) =>
        WrapperCall(FilterFactoryCall(filter_factory, last.dest, regArgs[last.dest]).value,
                    last.read1, last.read2).verdict = DISCARD

C9_Witness ==
    /\ last.op = "add_filter"
    /\ ~last.raised
    /\ Len(filters) = 2
    /\ nregs = 3
    /\ last.filter_type = filters[1].key
    /\ last.args = <<1>>
    /\ lateReg

-----------------------------------------------------------------------------
(* Properties of the wrappers, checked under SpecWrapper *)

\* whether the wrapped predicate matches a read that is present
Matches(w, read) == Pred(w.filter, read).value

\* the number of present reads of the last call the predicate matches
Matching(w, read1, read2) ==
    (IF Matches(w, read1) THEN 1 ELSE 0)
    + (IF read2 # None /\ Matches(w, read2) THEN 1 ELSE 0)

PairedCalled == elast.op = "call" /\ elast.before.class = "PairedWrapper"
SingleCalled == elast.op = "call" /\ elast.before.class = "SingleWrapper"

\* C3: in a PairedWrapper call without read 2, the absent read counts as
\* non-matching: the record is discarded iff the matching present reads are
\* at least min_affected, nothing raises, and a kept record leaves the
\* counter alone.
C3_AbsentRead2NonMatching ==
    (PairedCalled /\ elast.read2 = None) =>
        /\ ~elast.raised
        /\ elast.verdict =
               (Matching(elast.before, elast.read1, elast.read2)
                    >= elast.before.min_affected)
        /\ elast.before.min_affected = 2 => elast.verdict = KEEP
        /\ elast.verdict = KEEP => evaluator.filtered = elast.before.filtered

\* C4: a PairedWrapper called with both reads present discards iff the number
\* of reads its predicate matches is at least min_affected: either read for
\* 1, both reads for 2.
C4_PairedThreshold ==
    (PairedCalled /\ elast.read2 # None) =>
        LET w == elast.before
            m1 == Matches(w, elast.read1)
            m2 == Matches(w, elast.read2)
        IN  /\ ~elast.raised
            /\ elast.verdict = (Matching(w, elast.read1, elast.read2) >= w.min_affected)
            /\ w.min_affected = 1 => elast.verdict = (m1 \/ m2)
            /\ w.min_affected = 2 => elast.verdict = (m1 /\ m2)
            /\ evaluator.filtered =
                   IF elast.verdict = DISCARD THEN w.filtered + 1 ELSE w.filtered

C4_Witness ==
    /\ PairedCalled
    /\ elast.read2 # None
    /\ elast.before.min_affected = 2
    /\ Matches(elast.before, elast.read1)
    /\ Matches(elast.before, elast.read2)
    /\ elast.verdict = DISCARD

\* C7: a SingleWrapper discards iff its predicate matches read 1; whatever
\* read 2 is (absent, matching or not), the verdict and the counter change
\* are the same.
C7_SingleIgnoresRead2 ==
    SingleCalled =>
        LET w == elast.before
        IN  /\ ~elast.raised
            /\ elast.verdict = Matches(w, elast.read1)
            /\ evaluator.filtered =
                   IF Matches(w, elast.read1) THEN w.filtered + 1 ELSE w.filtered
            /\ \A other \in OrNone(WrapperReads) :
                LET r == WrapperCall(w, elast.read1, other)
                IN  /\ r.verdict = elast.verdict
                    /\ r.wrapper = evaluator
                    /\ ~r.raised

C7_Witness ==
    /\ SingleCalled
    /\ elast.read2 # None
    /\ Matches(elast.before, elast.read2)
    /\ ~Matches(elast.before, elast.read1)
    /\ elast.verdict = KEEP
    /\ evaluator.filtered = 1

-----------------------------------------------------------------------------
(* Properties of NContentFilter, checked under SpecPredicate *)

\* the number of 'N' and 'n' symbols of a sequence
NSymbols(seq) == Cardinality({i \in 1..Len(seq) : seq[i] \in {"N", "n"}})

NContentCalled ==
    /\ plast.op = "call"
    /\ predicate # None
    /\ predicate.type = "NContentFilter"

\* C6: with n the number of Ns of the read and count = num/den the threshold:
\* below 1 the read is discarded iff it is not empty and n/length > count;
\* from 1 on it is discarded iff n > count, so exactly count Ns are kept and
\* count + 1 Ns are discarded; count = 1 is an absolute count, so an all-N
\* read of length >= 2 is discarded and a read with one N is kept.
C6_NContentThreshold ==
    NContentCalled =>
        LET n == NSymbols(plast.read.sequence)
            length == Len(plast.read.sequence)
            num == plast.args[1]
            den == plast.args[2]
        IN  /\ ~plast.raised
            /\ num >= 0
            /\ num < den =>
                   plast.verdict = (length > 0 /\ n * den > num * length)
            /\ num >= den =>
                /\ plast.verdict = (n * den > num)
                /\ n * den = num => plast.verdict = KEEP
                /\ n * den = num + den => plast.verdict = DISCARD
            /\ num = den =>
                /\ (n = length /\ length >= 2) => plast.verdict = DISCARD
                /\ n = 1 => plast.verdict = KEEP

C6_Witness ==
    /\ NContentCalled
    /\ plast.args = <<1, 1>>
    /\ plast.read.sequence = <<"N", "n">>
    /\ plast.verdict = DISCARD

-----------------------------------------------------------------------------
(* Property of a shared chain, checked under SpecShared *)

AllReturned == \A t \in Threads : workers[t].pc = "done"

\* C10: when threads share one chain, no increment is lost: once every call
\* has returned, each wrapper's counter equals the number of filter() calls,
\* of all threads, that returned its key.
C10_SharedCountersExact ==
    AllReturned =>
        \A i \in 1..Len(filters) :
            filters[i].value.filtered =
                Cardinality({t \in Threads : workers[t].dest = filters[i].key})

====
